---- MODULE Spec2Model ----
(***************************************************************************)
(* Add-on package signing pipeline: lib/crypto/packaged.py                 *)
(*   get_endpoint, call_signing, sign_file, sign                           *)
(* A worker executes the statements of the module one at a time; the disk  *)
(* (canonical artifact paths and the temporary directory), the File        *)
(* records and the settings are the shared state.                          *)
(***************************************************************************)
EXTENDS Integers, Sequences, FiniteSets, TLC

\* ---------------------------------------------------------------- bounds
NumTempNames == 1      \* names tempfile can draw from
MaxSerial == 1         \* certificate serial numbers range over 0..MaxSerial
MaxCalls == 2          \* sign_file calls started in one behaviour
NumWorkers == 2        \* task workers

\* the File records of the database: two, so that a version can own
\* several artifacts
Files == {1, 2}
TempNames == 1..NumTempNames
Workers == 1..NumWorkers
SeqWorkers == {1}       \* the worker of the sequential specification
\* version.all_files of the versions in the database
Versions == {<<>>, <<1>>, <<1, 2>>}

\* ------------------------------------------------------------- constants
HTTP_OK == 200
None == -1             \* Python None where an integer is expected
NoFile == 0
NoName == 0

STATUS_PUBLIC == "public"
Statuses == {"unreviewed", "preliminary", STATUS_PUBLIC}

\* settings.SIGNING_SERVER / PRELIMINARY_SIGNING_SERVER: "" when unset
DefaultServers == {"", "https://signing"}
PrelimServers == {"", "https://prelim-signing"}

\* ----------------------------------------------------------------- data
\* A PKCS7 blob: either a certificate chain with a serial number or bytes
\* that do not parse.
PKCS7 ==
  {[parsable |-> TRUE, serial |-> s] : s \in 0..MaxSerial}
    \cup {[parsable |-> FALSE, serial |-> None]}
NoPkcs7 == [parsable |-> FALSE, serial |-> -2]

\* Bytes of a file on disk.  kind "xpi": the archive whose entries are those
\* of the uploaded archive `archive`, with the signature block `cert`
\* (NoPkcs7: none); whole = FALSE while a writer has not finished it.
\* kind "sf": a signature manifest.
Absent == [kind |-> "absent", archive |-> NoFile, cert |-> NoPkcs7, whole |-> FALSE]
EmptyFile == [kind |-> "empty", archive |-> NoFile, cert |-> NoPkcs7, whole |-> TRUE]
Original(a) == [kind |-> "xpi", archive |-> a, cert |-> NoPkcs7, whole |-> TRUE]
SignedArchive(a, p) == [kind |-> "xpi", archive |-> a, cert |-> p, whole |-> TRUE]
PartialArchive(a, p) == [kind |-> "xpi", archive |-> a, cert |-> p, whole |-> FALSE]
Manifest(a) == [kind |-> "sf", archive |-> a, cert |-> NoPkcs7, whole |-> TRUE]

\* base64 text: the encoded bytes and whether the text is correctly padded
b64encode(p) == [padded |-> TRUE, data |-> p]
BadBase64 == [padded |-> FALSE, data |-> NoPkcs7]
b64ok(t) == t.padded
b64decode(t) == t.data

\* response.content: a body that is JSON or not, with or without the
\* 'zigbert.rsa' member
BodyNotJson == [json |-> FALSE, has_key |-> FALSE, rsa |-> BadBase64]
BodyNoKey == [json |-> TRUE, has_key |-> FALSE, rsa |-> BadBase64]
BodyBadB64 == [json |-> TRUE, has_key |-> TRUE, rsa |-> BadBase64]
BodyCert(p) == [json |-> TRUE, has_key |-> TRUE, rsa |-> b64encode(p)]
Bodies == {BodyNotJson, BodyNoKey, BodyBadB64} \cup {BodyCert(p) : p \in PKCS7}

Reasons == [c \in {HTTP_OK, 201, 500} |->
              CASE c = HTTP_OK -> "OK"
                [] c = 201 -> "Created"
                [] OTHER -> "Internal Server Error"]
StatusCodes == DOMAIN Reasons
NoResponse == [status_code |-> 0, reason |-> "", content |-> BodyNotJson]
\* what the signing service may answer
Responses ==
  {[status_code |-> HTTP_OK, reason |-> Reasons[HTTP_OK], content |-> b] : b \in Bodies}
    \cup {[status_code |-> c, reason |-> Reasons[c], content |-> b] :
            c \in StatusCodes \ {HTTP_OK},
            b \in {BodyCert([parsable |-> TRUE, serial |-> MaxSerial])}}

NoEndpoint == [server |-> "", path |-> ""]
NoJar == [archive |-> NoFile, outpath |-> NoName]
NoOutcome == [kind |-> "none", msg |-> "", reason |-> ""]
NoPre == [content |-> Absent, serial |-> None, eligible |-> FALSE]

VARIABLES
  SIGNING_SERVER,             \* settings
  PRELIMINARY_SIGNING_SERVER, \* settings
  status,                     \* File.status
  is_xpi,                     \* File: the file is an .xpi archive
  well_formed,                \* the uploaded bytes are a readable archive
  cert_serial_num,            \* File.cert_serial_num
  storage,                    \* bytes at each File.file_path
  tmpdir,                     \* bytes at each temporary name
  loc,                        \* per worker: program counter and locals
  read_ok,                    \* every reader so far got a whole archive
  calls                       \* sign_file calls accounted for so far

vars == <<SIGNING_SERVER, PRELIMINARY_SIGNING_SERVER, status, is_xpi,
          well_formed, cert_serial_num, storage, tmpdir, loc,
          read_ok, calls>>

settings == <<SIGNING_SERVER, PRELIMINARY_SIGNING_SERVER>>
records == <<status, is_xpi, well_formed>>

IdleLocals ==
  [pc |-> "idle", file_obj |-> NoFile, in_task |-> FALSE, queue |-> <<>>,
   all_files |-> <<>>, eligible |-> <<>>,
   resolved |-> FALSE, endpoint |-> NoEndpoint, temp_filename |-> NoName,
   jar |-> NoJar, response |-> NoResponse, pkcs7 |-> NoPkcs7,
   cert_serial_num |-> None, outcome |-> NoOutcome, at |-> "",
   network_calls |-> 0, renamed |-> FALSE, pre |-> NoPre]

Init ==
  /\ SIGNING_SERVER \in DefaultServers
  /\ PRELIMINARY_SIGNING_SERVER \in PrelimServers
  /\ status \in [Files -> Statuses]
  /\ is_xpi \in [Files -> BOOLEAN]
  /\ well_formed \in [Files -> BOOLEAN]
  /\ cert_serial_num = [f \in Files |-> None]
  /\ storage = [f \in Files |-> Original(f)]
  /\ tmpdir = [n \in TempNames |-> Absent]
  /\ loc = [w \in Workers |-> IdleLocals]
  /\ read_ok = TRUE
  /\ calls = 0

\* --------------------------------------------------------------- helpers
\* File.can_be_signed(): an archive of the signable format that has not
\* been signed yet
can_be_signed(f) == is_xpi[f] /\ cert_serial_num[f] = None

\* get_endpoint without the test of line 27
get_endpoint_ignores_status(f) ==
  IF SIGNING_SERVER = "" THEN NoEndpoint
  ELSE [server |-> SIGNING_SERVER, path |-> "/1.0/sign_addon"]

\* get_endpoint(file_obj)
get_endpoint(f) ==
  LET server == IF status[f] # STATUS_PUBLIC
                THEN PRELIMINARY_SIGNING_SERVER
                ELSE SIGNING_SERVER
  IN  IF server = "" THEN NoEndpoint
      ELSE [server |-> server, path |-> "/1.0/sign_addon"]

\* the bytes c are an archive JarExtractor can read
Readable(c) == c.kind = "xpi" /\ c.whole /\ well_formed[c.archive]

\* line 90 raises on the body b: json.loads, the subscript or b64decode fails
MalformedBody(b) == ~b.json \/ ~b.has_key \/ ~b64ok(b.rsa)

\* Python truth value of a serial number (None and 0 are false)
Truthy(n) == n # None /\ n # 0

\* an exception leaves sign_file: SigningError is logged and re-raised by
\* sign_file, anything else passes through it
Raise(w, kind, msg, reason) ==
  loc' = [loc EXCEPT ![w].pc = "sign_file_exit",
                     ![w].outcome = [kind |-> kind, msg |-> msg, reason |-> reason],
                     ![w].at = loc[w].pc]

Goto(w, label) == loc' = [loc EXCEPT ![w].pc = label]

\* locals of a fresh sign_file(file_obj) call
EnterSignFile(w, f, in_task, queue) ==
  [IdleLocals EXCEPT !.pc = "gate", !.file_obj = f, !.in_task = in_task,
                     !.queue = queue,
                     !.all_files = loc[w].all_files,
                     !.eligible = loc[w].eligible,
                     !.pre = [content |-> storage[f],
                              serial |-> cert_serial_num[f],
                              eligible |-> can_be_signed(f)]]

disk == <<storage, tmpdir>>

\* the bytes c are the whole uploaded archive of f, or that archive whole
\* with a signature block
IsArchiveOf(f, c) ==
  \/ c = Original(f)
  \/ \E p \in PKCS7 : p.parsable /\ c = SignedArchive(f, p)

\* --------------------------------------------------------------- actions
\* a caller invokes sign_file(file_obj) directly
sign_file_call(w, f) ==
  /\ loc[w].pc = "idle"
  /\ calls < MaxCalls
  /\ calls' = calls + 1
  /\ loc' = [loc EXCEPT ![w] = EnterSignFile(w, f, FALSE, <<>>)]
  /\ UNCHANGED <<settings, records, cert_serial_num, disk, read_ok>>

\* sign without the check of lines 120-123
sign_without_empty_check(w, all_files) ==
  /\ loc[w].pc = "idle"
  /\ calls + Len(all_files) <= MaxCalls
  /\ calls' = calls + Len(all_files)
  /\ loc' = [loc EXCEPT ![w].pc = "sign_loop", ![w].in_task = TRUE,
               ![w].all_files = all_files,
               ![w].eligible = SelectSeq(all_files, can_be_signed),
               ![w].queue = SelectSeq(all_files, can_be_signed)]
  /\ UNCHANGED <<settings, records, cert_serial_num, disk, read_ok>>

\* sign raising when the list of line 127 is empty, too
sign_requires_eligible(w, all_files) ==
  /\ loc[w].pc = "idle"
  /\ calls + Len(all_files) <= MaxCalls
  /\ calls' = calls + Len(all_files)
  /\ IF SelectSeq(all_files, can_be_signed) = <<>>
     THEN loc' = [loc EXCEPT ![w].pc = "done", ![w].in_task = TRUE,
                    ![w].all_files = all_files,
                    ![w].outcome = [kind |-> "SigningError", msg |-> "No file",
                                    reason |-> ""],
                    ![w].at = "sign"]
     ELSE loc' = [loc EXCEPT ![w].pc = "sign_loop", ![w].in_task = TRUE,
                    ![w].all_files = all_files,
                    ![w].eligible = SelectSeq(all_files, can_be_signed),
                    ![w].queue = SelectSeq(all_files, can_be_signed)]
  /\ UNCHANGED <<settings, records, cert_serial_num, disk, read_ok>>

\* sign(version), lines 119-125
sign(w, all_files) ==
  /\ loc[w].pc = "idle"
  /\ calls + Len(all_files) <= MaxCalls
  /\ calls' = calls + Len(all_files)
  /\ IF all_files = <<>>
     THEN loc' = [loc EXCEPT ![w].pc = "done", ![w].in_task = TRUE,
                    ![w].all_files = all_files,
                    ![w].outcome = [kind |-> "SigningError", msg |-> "No file",
                                    reason |-> ""],
                    ![w].at = "sign"]
     ELSE loc' = [loc EXCEPT ![w].pc = "sign_loop", ![w].in_task = TRUE,
                    ![w].all_files = all_files,
                    ![w].eligible = SelectSeq(all_files, can_be_signed),
                    ![w].queue = SelectSeq(all_files, can_be_signed)]
  /\ UNCHANGED <<settings, records, cert_serial_num, disk, read_ok>>

\* the loop of sign written as a while loop that never drops the file it
\* has just signed
sign_loop_never_advances(w) ==
  /\ loc[w].pc = "sign_loop"
  /\ IF loc[w].queue = <<>>
     THEN loc' = [loc EXCEPT ![w].pc = "done", ![w].at = "sign",
                    ![w].outcome = [kind |-> "returned", msg |-> "", reason |-> ""]]
     ELSE loc' = [loc EXCEPT ![w] =
                    EnterSignFile(w, Head(loc[w].queue), TRUE, loc[w].queue)]
  /\ UNCHANGED <<settings, records, cert_serial_num, disk, read_ok, calls>>

\* the for loop of sign, lines 127-129
sign_loop(w) ==
  /\ loc[w].pc = "sign_loop"
  /\ IF loc[w].queue = <<>>
     THEN loc' = [loc EXCEPT ![w].pc = "done", ![w].at = "sign",
                    ![w].outcome = [kind |-> "returned", msg |-> "", reason |-> ""]]
     ELSE loc' = [loc EXCEPT ![w] =
                    EnterSignFile(w, Head(loc[w].queue), TRUE, Tail(loc[w].queue))]
  /\ UNCHANGED <<settings, records, cert_serial_num, disk, read_ok, calls>>

\* sign_file with the gate logging the error but not raising it
sign_file_gate_falls_through(w) ==
  /\ loc[w].pc = "gate"
  /\ Goto(w, "get_endpoint")
  /\ UNCHANGED <<settings, records, cert_serial_num, disk, read_ok, calls>>

\* sign_file, lines 103-106
sign_file_gate(w) ==
  /\ loc[w].pc = "gate"
  /\ IF ~can_be_signed(loc[w].file_obj)
     THEN Raise(w, "SigningError", "Attempt to sign a non-xpi file", "")
     ELSE Goto(w, "get_endpoint")
  /\ UNCHANGED <<settings, records, cert_serial_num, disk, read_ok, calls>>

\* call_signing without the early return of lines 38-40
call_signing_endpoint_no_return(w) ==
  /\ loc[w].pc = "get_endpoint"
  /\ loc' = [loc EXCEPT ![w].endpoint = get_endpoint(loc[w].file_obj),
               ![w].resolved = TRUE, ![w].pc = "tempfile"]
  /\ UNCHANGED <<settings, records, cert_serial_num, disk, read_ok, calls>>

\* call_signing, lines 37-40
call_signing_endpoint(w) ==
  /\ loc[w].pc = "get_endpoint"
  /\ LET endpoint == get_endpoint(loc[w].file_obj)
     IN  loc' = [loc EXCEPT ![w].endpoint = endpoint, ![w].resolved = TRUE,
                   ![w].pc = IF endpoint = NoEndpoint THEN "update" ELSE "tempfile"]
  /\ UNCHANGED <<settings, records, cert_serial_num, disk, read_ok, calls>>

\* call_signing, line 45: NamedTemporaryFile() creates a file under a name
\* no existing file has
NamedTemporaryFile(w) ==
  /\ loc[w].pc = "tempfile"
  /\ IF \E n \in TempNames : tmpdir[n] = Absent
     THEN \E n \in TempNames :
            /\ tmpdir[n] = Absent
            /\ tmpdir' = [tmpdir EXCEPT ![n] = EmptyFile]
            /\ loc' = [loc EXCEPT ![w].temp_filename = n, ![w].pc = "tempfile_close"]
     ELSE /\ Raise(w, "IOError", "No usable temporary file name found", "")
          /\ UNCHANGED tmpdir
  /\ UNCHANGED <<settings, records, cert_serial_num, storage, read_ok, calls>>

\* call_signing, lines 45-46: leaving the with block deletes the file; only
\* its name is kept
NamedTemporaryFile_close(w) ==
  /\ loc[w].pc = "tempfile_close"
  /\ tmpdir' = [tmpdir EXCEPT ![loc[w].temp_filename] = Absent]
  /\ Goto(w, "extract")
  /\ UNCHANGED <<settings, records, cert_serial_num, storage, read_ok, calls>>

\* call_signing with the extraction error of lines 53-56 swallowed
JarExtractor_unchecked(w) ==
  /\ loc[w].pc = "extract"
  /\ loc' = [loc EXCEPT ![w].jar = [archive |-> storage[loc[w].file_obj].archive,
                                    outpath |-> loc[w].temp_filename],
                        ![w].pc = "post"]
  /\ UNCHANGED <<settings, records, cert_serial_num, disk, read_ok, calls>>

\* call_signing, lines 49-56: JarExtractor reads the archive at file_path
JarExtractor(w) ==
  /\ loc[w].pc = "extract"
  /\ LET c == storage[loc[w].file_obj]
     IN  IF Readable(c)
         THEN loc' = [loc EXCEPT ![w].jar = [archive |-> c.archive,
                                             outpath |-> loc[w].temp_filename],
                                 ![w].pc = "post"]
         ELSE Raise(w, "SigningError", "Archive extraction failed. Bad archive?", "")
  /\ UNCHANGED <<settings, records, cert_serial_num, disk, read_ok, calls>>

\* call_signing, lines 68-84: requests.post raises (connection failure,
\* timeout) or returns a response.  requests raises HTTPError only from
\* raise_for_status(), which is not called, so what post raises reaches the
\* bare except of line 80; a 3xx-5xx answer comes back as a response.
requests_post(w) ==
  /\ loc[w].pc = "post"
  /\ \/ loc' = [loc EXCEPT ![w].pc = "sign_file_exit",
                  ![w].network_calls = loc[w].network_calls + 1,
                  ![w].outcome = [kind |-> "SigningError",
                                  msg |-> "Posting to add-on signing failed",
                                  reason |-> ""],
                  ![w].at = "post"]
     \/ \E r \in Responses :
          loc' = [loc EXCEPT ![w].pc = "status", ![w].response = r,
                    ![w].network_calls = loc[w].network_calls + 1]
  /\ UNCHANGED <<settings, records, cert_serial_num, disk, read_ok, calls>>

\* call_signing with line 85 accepting every 2xx status
check_status_any_2xx(w) ==
  /\ loc[w].pc = "status"
  /\ IF loc[w].response.status_code < 200 \/ loc[w].response.status_code >= 300
     THEN Raise(w, "SigningError", "Posting to add-on signing failed",
                loc[w].response.reason)
     ELSE Goto(w, "decode")
  /\ UNCHANGED <<settings, records, cert_serial_num, disk, read_ok, calls>>

\* call_signing posting again after a status other than 200
check_status_retries(w) ==
  /\ loc[w].pc = "status"
  /\ IF loc[w].response.status_code # HTTP_OK
     THEN Goto(w, "post")
     ELSE Goto(w, "decode")
  /\ UNCHANGED <<settings, records, cert_serial_num, disk, read_ok, calls>>

\* call_signing, lines 85-88
check_status(w) ==
  /\ loc[w].pc = "status"
  /\ IF loc[w].response.status_code # HTTP_OK
     THEN Raise(w, "SigningError", "Posting to add-on signing failed",
                loc[w].response.reason)
     ELSE Goto(w, "decode")
  /\ UNCHANGED <<settings, records, cert_serial_num, disk, read_ok, calls>>

\* call_signing, line 90: b64decode(json.loads(response.content)['zigbert.rsa'])
decode_response(w) ==
  /\ loc[w].pc = "decode"
  /\ LET body == loc[w].response.content
     IN  IF ~body.json THEN Raise(w, "ValueError", "No JSON object could be decoded", "")
         ELSE IF ~body.has_key THEN Raise(w, "KeyError", "zigbert.rsa", "")
         ELSE IF ~b64ok(body.rsa) THEN Raise(w, "TypeError", "Incorrect padding", "")
         ELSE loc' = [loc EXCEPT ![w].pkcs7 = b64decode(body.rsa), ![w].pc = "serial"]
  /\ UNCHANGED <<settings, records, cert_serial_num, disk, read_ok, calls>>

\* call_signing, lines 91-92 and 94-97
get_signature_serial_number(w) ==
  /\ loc[w].pc = "serial"
  /\ IF ~loc[w].pkcs7.parsable
     THEN Raise(w, "SigningError", "Addon signing failed", "")
     ELSE loc' = [loc EXCEPT ![w].cert_serial_num = loc[w].pkcs7.serial,
                             ![w].pc = "make_signed"]
  /\ UNCHANGED <<settings, records, cert_serial_num, disk, read_ok, calls>>

\* make_signed with the artifact's own path as outpath: the signed archive
\* is written in place
make_signed_in_place(w) ==
  /\ loc[w].pc = "make_signed"
  /\ storage' = [storage EXCEPT ![loc[w].file_obj] =
                   PartialArchive(loc[w].jar.archive, loc[w].pkcs7)]
  /\ Goto(w, "writing")
  /\ UNCHANGED <<settings, records, cert_serial_num, tmpdir, read_ok, calls>>

\* call_signing, line 93: jar.make_signed opens its outpath and starts
\* writing the signed archive
make_signed(w) ==
  /\ loc[w].pc = "make_signed"
  /\ tmpdir' = [tmpdir EXCEPT ![loc[w].jar.outpath] =
                  PartialArchive(loc[w].jar.archive, loc[w].pkcs7)]
  /\ Goto(w, "writing")
  /\ UNCHANGED <<settings, records, cert_serial_num, storage, read_ok, calls>>

\* call_signing with the rename of line 98 in a finally clause: it runs when
\* make_signed failed, too
make_signed_finish_then_rename(w) ==
  /\ loc[w].pc = "writing"
  /\ \/ /\ tmpdir' = [tmpdir EXCEPT ![loc[w].jar.outpath] =
                        SignedArchive(loc[w].jar.archive, loc[w].pkcs7)]
        /\ Goto(w, "rename")
        /\ UNCHANGED storage
     \/ /\ Raise(w, "SigningError", "Addon signing failed", "")
        /\ storage' = [storage EXCEPT ![loc[w].file_obj] = tmpdir[loc[w].jar.outpath]]
        /\ tmpdir' = [tmpdir EXCEPT ![loc[w].jar.outpath] = Absent]
  /\ UNCHANGED <<settings, records, cert_serial_num, read_ok, calls>>

\* call_signing, lines 93-97: the write completes, or fails part-way
make_signed_finish(w) ==
  /\ loc[w].pc = "writing"
  /\ \/ /\ tmpdir' = [tmpdir EXCEPT ![loc[w].jar.outpath] =
                        SignedArchive(loc[w].jar.archive, loc[w].pkcs7)]
        /\ Goto(w, "rename")
     \/ /\ Raise(w, "SigningError", "Addon signing failed", "")
        /\ UNCHANGED tmpdir
  /\ UNCHANGED <<settings, records, cert_serial_num, storage, read_ok, calls>>

\* os.rename with its arguments swapped
os_rename_swapped(w) ==
  /\ tmpdir' = [tmpdir EXCEPT ![loc[w].temp_filename] = storage[loc[w].file_obj]]
  /\ storage' = [storage EXCEPT ![loc[w].file_obj] = Absent]
  /\ loc' = [loc EXCEPT ![w].renamed = TRUE, ![w].pc = "update"]

\* call_signing, lines 98-99: os.rename succeeds, atomically
os_rename_ok(w) ==
  /\ tmpdir[loc[w].temp_filename] # Absent
  /\ storage' = [storage EXCEPT ![loc[w].file_obj] = tmpdir[loc[w].temp_filename]]
  /\ tmpdir' = [tmpdir EXCEPT ![loc[w].temp_filename] = Absent]
  /\ loc' = [loc EXCEPT ![w].renamed = TRUE, ![w].pc = "update"]

\* call_signing with the OSError of os.rename caught and ignored
os_rename_fail_ignored(w) ==
  /\ Goto(w, "update")
  /\ UNCHANGED disk

\* call_signing, line 98: os.rename raises OSError (source missing, or the
\* two paths on different devices); nothing on disk changes
os_rename_fail(w) ==
  /\ Raise(w, "OSError", "rename", "")
  /\ UNCHANGED disk

os_rename(w) ==
  /\ loc[w].pc = "rename"
  /\ os_rename_ok(w) \/ os_rename_fail(w)
  /\ UNCHANGED <<settings, records, cert_serial_num, read_ok, calls>>

\* sign_file, lines 109-115
sign_file_update(w) ==
  /\ loc[w].pc = "update"
  /\ IF Truthy(loc[w].cert_serial_num)
     THEN cert_serial_num' = [cert_serial_num EXCEPT ![loc[w].file_obj] =
                                loc[w].cert_serial_num]
     ELSE UNCHANGED cert_serial_num
  /\ loc' = [loc EXCEPT ![w].pc = "sign_file_exit", ![w].at = "update",
               ![w].outcome = [kind |-> "returned", msg |-> "", reason |-> ""]]
  /\ UNCHANGED <<settings, records, disk, read_ok, calls>>

\* sign with the call of line 129 in a try block that logs the error and
\* goes on with the next file
sign_file_return_continues(w) ==
  /\ loc[w].pc = "sign_file_exit"
  /\ IF loc[w].in_task
     THEN Goto(w, "sign_loop")
     ELSE Goto(w, "done")
  /\ UNCHANGED <<settings, records, cert_serial_num, disk, read_ok, calls>>

\* control leaves sign_file: back into the loop of sign, or out to the caller
sign_file_return(w) ==
  /\ loc[w].pc = "sign_file_exit"
  /\ IF loc[w].in_task /\ loc[w].outcome.kind = "returned"
     THEN Goto(w, "sign_loop")
     ELSE Goto(w, "done")
  /\ UNCHANGED <<settings, records, cert_serial_num, disk, read_ok, calls>>

\* the invocation is over; the worker takes the next one
finish(w) ==
  /\ loc[w].pc = "done"
  /\ loc' = [loc EXCEPT ![w] = IdleLocals]
  /\ UNCHANGED <<settings, records, cert_serial_num, disk, read_ok, calls>>

Running == {"gate", "get_endpoint", "tempfile", "tempfile_close", "extract",
            "post", "status", "decode", "serial", "make_signed", "writing",
            "rename", "update"}

\* the worker process is killed between two statements; its locals are gone
interrupt(w) ==
  /\ loc[w].pc \in Running
  /\ loc' = [loc EXCEPT ![w] = IdleLocals]
  /\ UNCHANGED <<settings, records, cert_serial_num, disk, read_ok, calls>>

\* another process reads the bytes at a File's file_path
reader(f) ==
  /\ read_ok' = (read_ok /\ IsArchiveOf(f, storage[f]))
  /\ UNCHANGED <<settings, records, cert_serial_num, disk, loc, calls>>

Step(w) ==
  \/ \E f \in Files : sign_file_call(w, f)
  \/ \E all_files \in Versions : sign(w, all_files)
  \/ sign_loop(w)
  \/ sign_file_gate(w)
  \/ call_signing_endpoint(w)
  \/ NamedTemporaryFile(w)
  \/ NamedTemporaryFile_close(w)
  \/ JarExtractor(w)
  \/ requests_post(w)
  \/ check_status(w)
  \/ decode_response(w)
  \/ get_signature_serial_number(w)
  \/ make_signed(w)
  \/ make_signed_finish(w)
  \/ os_rename(w)
  \/ sign_file_update(w)
  \/ sign_file_return(w)
  \/ finish(w)
  \/ interrupt(w)

\* the statements of a running invocation of worker w
Progress(w) ==
  \/ sign_loop(w)
  \/ sign_file_gate(w)
  \/ call_signing_endpoint(w)
  \/ NamedTemporaryFile(w)
  \/ NamedTemporaryFile_close(w)
  \/ JarExtractor(w)
  \/ requests_post(w)
  \/ check_status(w)
  \/ decode_response(w)
  \/ get_signature_serial_number(w)
  \/ make_signed(w)
  \/ make_signed_finish(w)
  \/ os_rename(w)
  \/ sign_file_update(w)
  \/ sign_file_return(w)

\* one worker runs its calls one after another; readers run beside it
Next ==
  \/ \E w \in SeqWorkers : Step(w)
  \/ \E f \in Files : reader(f)

Spec == Init /\ [][Next]_vars

\* a worker that is not killed goes on to its next statement; requests.post
\* is given timeout=, so it answers or raises
LiveSpec == Init /\ [][Next]_vars /\ \A w \in SeqWorkers : WF_vars(Progress(w))

\* one worker whose calls all run to their end: the same File is handed to
\* sign_file and sign again and again (a task delivered twice)
RedeliveryNext ==
  \E w \in SeqWorkers :
    \/ \E f \in Files : sign_file_call(w, f)
    \/ \E all_files \in Versions : sign(w, all_files)
    \/ Progress(w)
    \/ finish(w)

RedeliverySpec == Init /\ [][RedeliveryNext]_vars

\* several worker processes run sign_file and sign at the same time over
\* the same database, storage and temporary directory
ConcNext ==
  \/ \E w \in Workers : Step(w)
  \/ \E f \in Files : reader(f)

ConcSpec == Init /\ [][ConcNext]_vars

\* ---------------------------------------------------------------- claims
\* control is at the point where sign_file has just returned or raised
AtExit(w) == loc[w].pc = "sign_file_exit"
Returned(w) == AtExit(w) /\ loc[w].outcome.kind = "returned"
Raised(w) == AtExit(w) /\ loc[w].outcome.kind # "returned"
FileUnchanged(w) == storage[loc[w].file_obj] = loc[w].pre.content
SerialUnchanged(w) == cert_serial_num[loc[w].file_obj] = loc[w].pre.serial

\* C1: in every state, each canonical path holds the whole uploaded archive
\* or a whole signed archive of it, and so does everything a reader got.
C1_CanonicalWhole ==
  /\ \A f \in Files : IsArchiveOf(f, storage[f])
  /\ read_ok

\* C1 witness: a sign attempt is in the middle of writing its signed archive
C1_Witness ==
  \E w \in Workers :
    /\ loc[w].pc = "writing"
    /\ tmpdir[loc[w].temp_filename] =
         PartialArchive(loc[w].file_obj, loc[w].pkcs7)
    /\ storage[loc[w].file_obj] = Original(loc[w].file_obj)

\* C2: a sign_file call that raised at a step before the rename left the
\* canonical bytes and the stored serial number as they were at the call.
C2_FailureBeforeRenameChangesNothing ==
  \A w \in Workers :
    (Raised(w) /\ loc[w].at # "rename" /\ ~loc[w].renamed)
      => (FileUnchanged(w) /\ SerialUnchanged(w))

\* C2 witness: the write of the signed archive failed part-way
C2_Witness ==
  \E w \in Workers :
    /\ Raised(w)
    /\ loc[w].at = "writing"
    /\ ~tmpdir[loc[w].temp_filename].whole

\* C3: sign_file on an eligible artifact with no endpoint returns, having
\* made no network call, with the serial number unset and the bytes as before.
C3_NoEndpointIsNoOp ==
  \A w \in Workers :
    (AtExit(w) /\ loc[w].pre.eligible /\ get_endpoint(loc[w].file_obj) = NoEndpoint)
      => /\ loc[w].outcome.kind = "returned"
         /\ loc[w].network_calls = 0
         /\ cert_serial_num[loc[w].file_obj] = None
         /\ FileUnchanged(w)

\* C3 witness: an eligible artifact went through sign_file with no endpoint
C3_Witness ==
  \E w \in Workers :
    /\ Returned(w)
    /\ loc[w].pre.eligible
    /\ loc[w].resolved
    /\ loc[w].endpoint = NoEndpoint

\* C4: when the archive cannot be extracted, sign_file raises SigningError
\* from the extraction step with no network call made and the bytes as before.
C4_ExtractionFailureBeforeNetwork ==
  \A w \in Workers :
    (AtExit(w) /\ loc[w].pre.eligible /\ loc[w].endpoint # NoEndpoint
       /\ loc[w].temp_filename # NoName /\ ~Readable(loc[w].pre.content))
      => /\ loc[w].outcome.kind = "SigningError"
         /\ loc[w].at = "extract"
         /\ loc[w].network_calls = 0
         /\ FileUnchanged(w)

\* C4 witness: extraction of a malformed archive has failed
C4_Witness ==
  \E w \in Workers :
    /\ Raised(w)
    /\ loc[w].at = "extract"
    /\ ~well_formed[loc[w].file_obj]

\* C5: sign_file on an artifact that cannot be signed raises SigningError at
\* the gate: no endpoint resolved, nothing extracted, no network call, bytes
\* and serial number as before.
C5_IneligibleRejectedAtGate ==
  \A w \in Workers :
    (AtExit(w) /\ ~loc[w].pre.eligible)
      => /\ loc[w].outcome.kind = "SigningError"
         /\ loc[w].at = "gate"
         /\ ~loc[w].resolved
         /\ loc[w].jar = NoJar
         /\ loc[w].network_calls = 0
         /\ FileUnchanged(w) /\ SerialUnchanged(w)

\* C5 witness: an artifact signed earlier was rejected at the gate
C5_Witness ==
  \E w \in Workers :
    /\ Raised(w)
    /\ loc[w].at = "gate"
    /\ loc[w].pre.serial # None
    /\ is_xpi[loc[w].file_obj]

\* C6: after a sign_file call that returned with an endpoint configured, the
\* canonical bytes are the archive read at the call with the returned
\* certificate embedded: not the unsigned archive, not the manifest.
C6_SignedArchiveInstalled ==
  \A w \in Workers :
    (Returned(w) /\ loc[w].endpoint # NoEndpoint)
      => /\ storage[loc[w].file_obj] =
              SignedArchive(loc[w].pre.content.archive,
                            b64decode(loc[w].response.content.rsa))
         /\ storage[loc[w].file_obj] # Original(loc[w].pre.content.archive)
         /\ storage[loc[w].file_obj] # Manifest(loc[w].pre.content.archive)

\* C6 witness: a sign_file call has returned after the rename
C6_Witness ==
  \E w \in Workers :
    /\ Returned(w)
    /\ loc[w].renamed
    /\ loc[w].pre.content = Original(loc[w].file_obj)

\* C7: after a sign_file call that returned with an endpoint configured, the
\* stored serial number is the serial number of the returned certificate,
\* whatever that number is.
C7_StoredSerialIsCertificateSerial ==
  \A w \in Workers :
    (Returned(w) /\ loc[w].endpoint # NoEndpoint)
      => cert_serial_num[loc[w].file_obj] = loc[w].pkcs7.serial

\* C8: every step that writes a stored serial number is taken by an attempt
\* on that artifact whose rename has completed and whose signed archive is
\* at the canonical path.
C8_SerialOnlyAfterRename ==
  [][\A f \in Files :
       cert_serial_num'[f] # cert_serial_num[f]
         => \E w \in Workers :
              /\ loc[w].file_obj = f
              /\ loc[w].renamed
              /\ storage[f] = SignedArchive(loc[w].jar.archive, loc[w].pkcs7)
              /\ cert_serial_num'[f] = loc[w].pkcs7.serial]_vars

\* C8 witness: a serial number has been stored by an attempt that renamed
C8_Witness ==
  \E w \in Workers :
    /\ Returned(w)
    /\ loc[w].renamed
    /\ cert_serial_num[loc[w].file_obj] # loc[w].pre.serial

\* C9: a 200 response with a malformed body makes sign_file raise
\* SigningError and no other kind of error, the bytes as before.
C9_MalformedBodyIsSigningError ==
  \A w \in Workers :
    (AtExit(w) /\ loc[w].response.status_code = HTTP_OK
       /\ MalformedBody(loc[w].response.content))
      => /\ loc[w].outcome.kind = "SigningError"
         /\ FileUnchanged(w)

\* C10: a response whose status is not 200 makes sign_file raise
\* SigningError carrying the response's reason; nothing is written to the
\* temporary path, the bytes and the stored serial number are as before.
C10_Non200IsSigningError ==
  \A w \in Workers :
    (AtExit(w) /\ loc[w].response # NoResponse
       /\ loc[w].response.status_code # HTTP_OK)
      => /\ loc[w].outcome.kind = "SigningError"
         /\ loc[w].outcome.reason = loc[w].response.reason
         /\ loc[w].at = "status"
         /\ tmpdir[loc[w].temp_filename] = Absent
         /\ FileUnchanged(w) /\ SerialUnchanged(w)
         /\ loc[w].cert_serial_num = None

\* C10 witness: the service answered 201 and the call raised
C10_Witness ==
  \E w \in Workers :
    /\ Raised(w)
    /\ loc[w].response.status_code = 201
    /\ loc[w].network_calls = 1

\* the task sign(version) of worker w has ended by raising out of sign_file
TaskRaised(w) ==
  /\ loc[w].in_task
  /\ loc[w].pc = "done"
  /\ loc[w].at # "sign"
  /\ loc[w].outcome.kind # "returned"

\* C11: sign on a version with no files ends at once with
\* SigningError('No file'): no sign_file call entered, no endpoint resolved,
\* no network call.
C11_NoFilesFailsFast ==
  \A w \in Workers :
    (loc[w].in_task /\ loc[w].all_files = <<>>)
      => /\ loc[w].pc = "done"
         /\ loc[w].outcome = [kind |-> "SigningError", msg |-> "No file",
                              reason |-> ""]
         /\ loc[w].file_obj = NoFile
         /\ ~loc[w].resolved
         /\ loc[w].network_calls = 0

\* C11 witness: sign was invoked on a version with no files
C11_Witness ==
  \E w \in Workers :
    /\ loc[w].in_task
    /\ loc[w].all_files = <<>>
    /\ loc[w].at = "sign"

C13_EndpointRouting ==
  /\ [](\A w \in Workers :
          loc[w].resolved
            => LET f == loc[w].file_obj
                   e == loc[w].endpoint
               IN  /\ status[f] = "public" => e.server = SIGNING_SERVER
                   /\ status[f] \in {"unreviewed", "preliminary"}
                        => e.server = PRELIMINARY_SIGNING_SERVER
                   /\ (e = NoEndpoint) <=> (e.server = "")
                   /\ e # NoEndpoint => e.path = "/1.0/sign_addon")
  /\ [][\A w \in Workers :
          (~loc[w].resolved /\ loc'[w].resolved)
            => UNCHANGED <<settings, records, cert_serial_num, disk>>]_vars

\* C13 witness: with both servers configured, an unreviewed file got the
\* preliminary endpoint
C13_Witness ==
  \E w \in Workers :
    /\ loc[w].resolved
    /\ status[loc[w].file_obj] = "unreviewed"
    /\ SIGNING_SERVER # ""
    /\ loc[w].endpoint.server = PRELIMINARY_SIGNING_SERVER
    /\ loc[w].endpoint.server # SIGNING_SERVER
    /\ loc[w].endpoint # NoEndpoint
\* the statements of call_signing from the extraction to the rename
HoldsTemp == {"extract", "post", "status", "decode", "serial", "make_signed",
              "writing", "rename"}

\* C15 as claimed: an attempt that replaces the canonical bytes finds them
\* not replaced before, the serial number unset.
C15_ReplacedAtMostOnce ==
  \A w \in Workers :
    loc[w].renamed
      => /\ loc[w].pre.content = Original(loc[w].file_obj)
         /\ loc[w].pre.serial = None

\* C16: a sign_file call posts at most once; a failed post and a status
\* other than 200 end the call with SigningError after that one post.
C16_AtMostOneNetworkCall ==
  \A w \in Workers :
    /\ loc[w].network_calls <= 1
    /\ (AtExit(w) /\ loc[w].at \in {"post", "status"})
         => /\ loc[w].outcome.kind = "SigningError"
            /\ loc[w].network_calls = 1

\* C16 witness: the post raised and the call ended after one network call
C16_Witness ==
  \E w \in Workers :
    /\ Raised(w)
    /\ loc[w].at = "post"
    /\ loc[w].response = NoResponse
    /\ loc[w].network_calls = 1

\* C17: every running sign_file or sign invocation comes to its end, and a
\* post that raised (a timeout) ends the call with SigningError, the
\* canonical bytes as before.
C17_Terminates ==
  /\ \A w \in Workers :
       (loc[w].pc \notin {"idle", "done"}) ~> (loc[w].pc \in {"idle", "done"})
  /\ [](\A w \in Workers :
          (AtExit(w) /\ loc[w].at = "post")
            => (loc[w].outcome.kind = "SigningError" /\ FileUnchanged(w)))

\* C17 witness: a sign task over two eligible artifacts has run to its end
C17_Witness ==
  \E w \in Workers :
    /\ loc[w].in_task
    /\ loc[w].pc = "done"
    /\ Len(loc[w].eligible) = 2
    /\ loc[w].outcome.kind = "returned"

\* C18 as claimed: sign on a version that owns artifacts none of which can
\* be signed ends with SigningError.
C18_NothingEligibleIsSigningError ==
  \A w \in Workers :
    (loc[w].in_task /\ loc[w].pc = "done"
       /\ loc[w].all_files # <<>> /\ loc[w].eligible = <<>>)
      => loc[w].outcome.kind = "SigningError"

\* C18 as amended: sign on a version that owns artifacts none of which can
\* be signed returns, having entered no sign_file call and made no network
\* call.
C18_NothingEligibleReturns ==
  \A w \in Workers :
    (loc[w].in_task /\ loc[w].all_files # <<>> /\ loc[w].eligible = <<>>)
      => /\ loc[w].pc \in {"sign_loop", "done"}
         /\ loc[w].file_obj = NoFile
         /\ loc[w].network_calls = 0
         /\ (loc[w].pc = "done" => loc[w].outcome.kind = "returned")

\* C18 witness: sign has ended on a version of two files, neither eligible
C18_Witness ==
  \E w \in Workers :
    /\ loc[w].in_task
    /\ loc[w].pc = "done"
    /\ Len(loc[w].all_files) = 2
    /\ loc[w].eligible = <<>>
\* C14 as claimed: two sign attempts that are both between extraction and
\* rename never hold the same temporary path.
C14_TempPathExclusive ==
  \A w1, w2 \in Workers :
    (w1 # w2 /\ loc[w1].pc \in HoldsTemp /\ loc[w2].pc \in HoldsTemp)
      => loc[w1].temp_filename # loc[w2].temp_filename

\* C19 as claimed: a stored serial number is the serial number of the
\* certificate in the content at the canonical path.
C19_SerialMatchesContent ==
  \A f \in Files :
    cert_serial_num[f] # None
      => /\ storage[f].cert # NoPkcs7
         /\ storage[f].cert.serial = cert_serial_num[f]
====
